---- MODULE Spec2Model ----
(***************************************************************************)
(* Model of the unitCell class of udkm1Dsimpy (src/unitCell.py).           *)
(*                                                                         *)
(* The instance dictionary of the unit cell (vars(self)) is the record     *)
(* `self`; an attribute exists exactly when its name is in DOMAIN self.    *)
(* Real numbers are exact rationals <<numerator, denominator>>; lengths    *)
(* are measured in Angstrom, so that the unit constant u.angstrom is 1.    *)
(* A numpy array is a record [dtype, vals]: storing into an int64 array    *)
(* casts the value to an integer, as numpy does.                           *)
(* Python lists that are compared by identity carry an object id.          *)
(***************************************************************************)
EXTENDS Integers, Sequences, FiniteSets, TLC

VARIABLES
    pc,          \* "new" before __init__, then "ready", or "failed" when it raised
    kw,          \* the keyword arguments __init__ was called with
    self,        \* vars(self): the instance dictionary of the unit cell
    pre,         \* the instance dictionary before the last operation
    op,          \* the last operation
    args,        \* its arguments
    raised,      \* whether it raised
    caught,      \* whether it caught and printed an exception
    ret,         \* what it returned
    nIntegrate,  \* the number of sympy integrations it performed
    lastSet      \* per integrated property, the value of the last manual set

vars == <<pc, kw, self, pre, op, args, raised, caught, ret, nIntegrate, lastSet>>

(***************************************************************************)
(* Bounds of the model                                                     *)
(***************************************************************************)
MaxAtoms == 2
MaxNb == 2

(***************************************************************************)
(* Exact rational arithmetic for the float quantities                      *)
(***************************************************************************)
RECURSIVE GCD(_, _)
GCD(a, b) == IF b = 0 THEN a ELSE GCD(b, a % b)

Abs(n) == IF n < 0 THEN -n ELSE n

Rat(n, d) ==
    LET g == GCD(Abs(n), Abs(d))
        s == IF d < 0 THEN -1 ELSE 1
    IN  <<(s * n) \div g, (s * d) \div g>>

R(n) == <<n, 1>>
RAdd(x, y) == Rat(x[1] * y[2] + y[1] * x[2], x[2] * y[2])
RMul(x, y) == Rat(x[1] * y[1], x[2] * y[2])
RDiv(x, y) == Rat(x[1] * y[2], x[2] * y[1])
RSq(x) == RMul(x, x)
\* int(x): truncation toward zero, the cast numpy applies on a store into int64
RTrunc(x) == IF x[1] >= 0 THEN R(x[1] \div x[2]) ELSE R(-((-x[1]) \div x[2]))

\* u.angstrom in the length unit of the model
angstrom == R(1)

(***************************************************************************)
(* Python values handed to the unit cell                                   *)
(***************************************************************************)
None == [kind |-> "none", num |-> 0, str |-> ""]
Num(n) == [kind |-> "num", num |-> n, str |-> ""]
Str(s) == [kind |-> "str", num |-> 0, str |-> s]
Func == [kind |-> "function", num |-> 0, str |-> ""]
Other == [kind |-> "other", num |-> 0, str |-> ""]

\* a keyword or setter argument: a list of entries, or one bare entry
List(items) == [isList |-> TRUE, items |-> items, value |-> None]
Bare(e) == [isList |-> FALSE, items |-> <<>>, value |-> e]

\* text whose eval() raises
BadText == "lambda T: ("
BadPos == "lambda strain: ("

EvalRaises(s) == s \in {BadText, BadPos}

\* the object eval(s) returns: a lambda, or a plain value for text such as '5'
Eval(s) ==
    IF s \in {"5"} THEN [kind |-> "value", src |-> s]
    ELSE [kind |-> "lambda", src |-> s]

\* '{:f}'.format(v) for the small non-negative integers of the model
FormatF(n) == ToString(n) \o ".000000"
\* '{:e}'.format(v) for the small non-negative integers of the model
FormatE(n) == ToString(n) \o ".000000e+00"

(***************************************************************************)
(* checkCellArrayInput                                                     *)
(***************************************************************************)
Raise == [raised |-> TRUE, output |-> <<>>, outputStrs |-> <<>>]

RECURSIVE checkCellArrayLoopAborts(_, _, _)
\* variant: text whose evaluation raises ends the traversal
checkCellArrayLoopAborts(inputs, output, outputStrs) ==
    IF inputs = <<>> THEN [raised |-> FALSE, output |-> output, outputStrs |-> outputStrs]
    ELSE LET input == Head(inputs) IN
         IF input.kind = "function" THEN Raise
         ELSE IF input.kind = "str" THEN
              IF EvalRaises(input.str)
              THEN [raised |-> FALSE, output |-> output, outputStrs |-> outputStrs]
              ELSE checkCellArrayLoopAborts(Tail(inputs),
                                            Append(output, Eval(input.str)),
                                            Append(outputStrs, input.str))
         ELSE IF input.kind = "num" THEN
              checkCellArrayLoopAborts(Tail(inputs),
                                 Append(output, Eval("lambda T: " \o FormatF(input.num))),
                                 Append(outputStrs, "lambda T: " \o FormatF(input.num)))
         ELSE Raise

RECURSIVE checkCellArrayLoop(_, _, _)
checkCellArrayLoop(inputs, output, outputStrs) ==
    IF inputs = <<>> THEN [raised |-> FALSE, output |-> output, outputStrs |-> outputStrs]
    ELSE LET input == Head(inputs) IN
         IF input.kind = "function" THEN Raise
         ELSE IF input.kind = "str" THEN
              IF EvalRaises(input.str)
              THEN checkCellArrayLoop(Tail(inputs), output, outputStrs)
              ELSE checkCellArrayLoop(Tail(inputs),
                                      Append(output, Eval(input.str)),
                                      Append(outputStrs, input.str))
         ELSE IF input.kind = "num" THEN
              checkCellArrayLoop(Tail(inputs),
                                 Append(output, Eval("lambda T: " \o FormatF(input.num))),
                                 Append(outputStrs, "lambda T: " \o FormatF(input.num)))
         ELSE Raise

\* variant: an input that is not a list is not converted to one
AsListNoWrap(inputs) == inputs.items

\* if not isinstance(inputs, list): inputs = [inputs]
AsList(inputs) == IF inputs.isList THEN inputs.items ELSE <<inputs.value>>

checkCellArrayInput(inputs) == checkCellArrayLoop(AsList(inputs), <<>>, <<>>)

(***************************************************************************)
(* calcSpringConst and the soundVel setter                                 *)
(***************************************************************************)
\* arr[i] = v on a numpy array
ArrayStore(arr, i, v) ==
    [arr EXCEPT !.vals[i] = IF arr.dtype = "int64" THEN RTrunc(v) ELSE v]

\* variant: the array is rebuilt from the harmonic term alone
calcSpringConstRebuilds(s) ==
    [s EXCEPT !.springConst =
        [dtype |-> s.springConst.dtype,
         vals |-> <<ArrayStore(s.springConst, 1,
                      RMul(s.mass, RSq(RDiv(s._soundVel, s.cAxis)))).vals[1]>>]]

calcSpringConst(s) ==
    [s EXCEPT !.springConst =
        ArrayStore(s.springConst, 1, RMul(s.mass, RSq(RDiv(s._soundVel, s.cAxis))))]

\* self.<name> = value on the instance dictionary
SetAttr(s, name, value) == (name :> value) @@ s

soundVelSetter(s, soundVel) == calcSpringConst(SetAttr(s, "_soundVel", soundVel))

(***************************************************************************)
(* __init__                                                                *)
(***************************************************************************)
\* variant: the linear thermal expansion and the coupling are not compared
SameNumberOfElementsFirstTwo(hc, tc, lte, ssc) ==
    Len(hc) = Len(tc)

SameNumberOfElements(hc, tc, lte, ssc) ==
    /\ Len(hc) = Len(tc)
    /\ Len(hc) = Len(lte)
    /\ Len(hc) = Len(ssc)

InitRaises(k) ==
    LET hc == checkCellArrayInput(k.heatCapacity)
        tc == checkCellArrayInput(k.thermCond)
        lte == checkCellArrayInput(k.linThermExp)
        ssc == checkCellArrayInput(k.subSystemCoupling)
    IN  \/ hc.raised \/ tc.raised \/ lte.raised \/ ssc.raised
        \/ ~SameNumberOfElements(hc.output, tc.output, lte.output, ssc.output)

InitSelf(k) ==
    LET hc == checkCellArrayInput(k.heatCapacity)
        tc == checkCellArrayInput(k.thermCond)
        lte == checkCellArrayInput(k.linThermExp)
        ssc == checkCellArrayInput(k.subSystemCoupling)
        s0 == [ID |-> k.ID, name |-> k.name, cAxis |-> k.cAxis,
               aAxis |-> k.aAxis, bAxis |-> k.bAxis,
               atoms |-> <<>>, numAtoms |-> 0, mass |-> R(0), density |-> R(0),
               springConst |-> [dtype |-> "int64", vals |-> <<R(0)>>],
               debWalFac |-> R(0)]
        s1 == soundVelSetter(s0, k.soundVel)
        s2 == [phononDamping |-> R(0), optPenDepth |-> k.optPenDepth,
               optRefIndex |-> k.optRefIndex,
               optRefIndexPerStrain |-> k.optRefIndexPerStrain,
               heatCapacity |-> hc.output, heatCapacityStr |-> hc.outputStrs,
               thermCond |-> tc.output, thermCondStr |-> tc.outputStrs,
               linThermExp |-> lte.output, linThermExpStr |-> lte.outputStrs,
               subSystemCoupling |-> ssc.output,
               subSystemCouplingStr |-> ssc.outputStrs,
               numSubSystems |-> Len(hc.output),
               area |-> RMul(k.aAxis, k.bAxis),
               volume |-> RMul(RMul(k.aAxis, k.bAxis), k.cAxis)]
    IN  s2 @@ s1

\* no unit cell object
NoCell == [none |-> TRUE]

\* keyword arguments of the constructions the model explores
HeatCapacitySpecs ==
    { Bare(Num(0)),
      Bare(Func),
      List(<<Num(1), Str("5")>>),
      List(<<Str(BadText), Num(1)>>) }
ThermCondSpecs ==
    { Bare(Num(0)), List(<<Num(1), Num(2)>>) }
LinThermExpSpecs ==
    { Bare(Num(0)), List(<<Num(0), Str("lambda T: T")>>), List(<<Str("5"), Num(1)>>) }
SubSystemCouplingSpecs ==
    { Bare(Num(0)), List(<<Num(0), Num(0)>>) }

\* <<cAxis, aAxis, soundVel>> of the constructions; bAxis defaults to aAxis
Geometries == { <<1, 1, 0>>, <<2, 2, 3>> }

Kwargs ==
    { [ID |-> "UC", name |-> "cell", cAxis |-> R(g[1]), aAxis |-> R(g[2]),
       bAxis |-> R(g[2]), soundVel |-> R(g[3]), optPenDepth |-> R(1),
       optRefIndex |-> R(2), optRefIndexPerStrain |-> R(0),
       heatCapacity |-> hc, thermCond |-> tc, linThermExp |-> lte,
       subSystemCoupling |-> ssc] :
         g \in Geometries,
         hc \in HeatCapacitySpecs, tc \in ThermCondSpecs,
         lte \in LinThermExpSpecs, ssc \in SubSystemCouplingSpecs }

\* no manual set so far
NotSet == [set |-> FALSE, value |-> Bare(None)]

Init ==
    /\ pc = "new"
    /\ kw = NoCell
    /\ self = NoCell
    /\ pre = NoCell
    /\ op = "none"
    /\ args = None
    /\ raised = FALSE
    /\ caught = FALSE
    /\ ret = None
    /\ nIntegrate = 0
    /\ lastSet = [HeatCapacity |-> NotSet, LinThermExp |-> NotSet]

Construct ==
    /\ pc = "new"
    /\ \E k \in Kwargs :
         /\ kw' = k
         /\ IF InitRaises(k)
            THEN /\ pc' = "failed" /\ self' = NoCell /\ raised' = TRUE
            ELSE /\ pc' = "ready" /\ self' = InitSelf(k) /\ raised' = FALSE
    /\ op' = "__init__"
    /\ UNCHANGED <<pre, args, caught, ret, nIntegrate, lastSet>>

(***************************************************************************)
(* addAtom, addMultipleAtoms                                               *)
(***************************************************************************)
\* the atom collaborators: only ID and mass are read
\* the (atom, position) arguments the model explores
AtomO == [ID |-> "O", mass |-> R(1)]
AtomSr == [ID |-> "Sr", mass |-> R(3)]
AtomArgs == { <<AtomO, Num(1)>>, <<AtomSr, Str(BadPos)>>, <<AtomSr, Func>>, <<AtomO, Other>> }

RECURSIVE SumAtomMass(_, _, _)
\* self.mass = 0; for i in range(numAtoms): self.mass = self.mass + atoms[i][0].mass
SumAtomMass(atoms, i, acc) ==
    IF i > Len(atoms) THEN acc
    ELSE SumAtomMass(atoms, i + 1, RAdd(acc, atoms[i].atom.mass))

\* variant: the mass is not reset, the new atom is added to the normalised mass
UpdateMassDensityNoReset(s) ==
    LET m == RAdd(s.mass, s.atoms[Len(s.atoms)].atom.mass)
    IN  [s EXCEPT !.density = RDiv(m, s.volume),
                  !.mass = RDiv(RMul(RMul(m, R(1)), RSq(angstrom)), s.area)]

\* lines 379 to 385: mass, density and the per-area normalisation of the mass
UpdateMassDensity(s) ==
    LET m == SumAtomMass(s.atoms, 1, R(0))
    IN  [s EXCEPT !.density = RDiv(m, s.volume),
                  !.mass = RDiv(RMul(RMul(m, R(1)), RSq(angstrom)), s.area)]

\* the (position, positionStr) pair addAtom stores
ResolvePosition(position) ==
    IF position.kind = "str" THEN
         IF EvalRaises(position.str)
         THEN [position |-> [kind |-> "str", src |-> position.str],
               positionStr |-> position.str, caught |-> TRUE]
         ELSE [position |-> Eval(position.str),
               positionStr |-> position.str, caught |-> FALSE]
    ELSE LET positionStr == "lambda strain: " \o FormatE(position.num) \o "*(strain+1)"
         IN  [position |-> Eval(positionStr), positionStr |-> positionStr,
              caught |-> FALSE]

addAtomRaises(position) == position.kind \notin {"str", "num"}

addAtom(s, atom, position) ==
    LET p == ResolvePosition(position)
        s1 == [s EXCEPT !.atoms = Append(@, [atom |-> atom, position |-> p.position,
                                              positionStr |-> p.positionStr]),
                        !.numAtoms = @ + 1]
    IN  calcSpringConst(UpdateMassDensity(s1))

RECURSIVE addMultipleAtoms(_, _, _, _)
addMultipleAtoms(s, atom, position, Nb) ==
    IF Nb = 0 THEN s
    ELSE addMultipleAtoms(addAtom(s, atom, position), atom, position, Nb - 1)

AddAtom ==
    /\ pc = "ready"
    /\ \E a \in AtomArgs : LET atom == a[1] position == a[2] IN
         /\ addAtomRaises(position) \/ self.numAtoms < MaxAtoms
         /\ args' = [atom |-> atom, position |-> position]
         /\ IF addAtomRaises(position)
            THEN /\ raised' = TRUE /\ caught' = FALSE /\ self' = self
            ELSE /\ raised' = FALSE
                 /\ caught' = ResolvePosition(position).caught
                 /\ self' = addAtom(self, atom, position)
    /\ pre' = self
    /\ op' = "addAtom"
    /\ nIntegrate' = 0
    /\ ret' = None
    /\ UNCHANGED <<pc, kw, lastSet>>

AddMultipleAtoms ==
    /\ pc = "ready"
    /\ \E a \in AtomArgs, Nb \in 0..MaxNb : LET atom == a[1] position == a[2] IN
         /\ addAtomRaises(position) \/ self.numAtoms + Nb <= MaxAtoms
         /\ args' = [atom |-> atom, position |-> position, Nb |-> Nb]
         /\ IF addAtomRaises(position) /\ Nb > 0
            THEN /\ raised' = TRUE /\ caught' = FALSE /\ self' = self
            ELSE /\ raised' = FALSE
                 /\ caught' = (Nb > 0 /\ position.kind = "str"
                                 /\ ResolvePosition(position).caught)
                 /\ self' = addMultipleAtoms(self, atom, position, Nb)
    /\ pre' = self
    /\ op' = "addMultipleAtoms"
    /\ nIntegrate' = 0
    /\ ret' = None
    /\ UNCHANGED <<pc, kw, lastSet>>

(***************************************************************************)
(* soundVel setter, setHOspringConstants                                   *)
(***************************************************************************)
SoundVels == { R(0), R(1), R(3) }

SetSoundVel ==
    /\ pc = "ready"
    /\ \E soundVel \in SoundVels :
         /\ args' = soundVel
         /\ self' = soundVelSetter(self, soundVel)
    /\ pre' = self
    /\ op' = "soundVel"
    /\ raised' = FALSE
    /\ caught' = FALSE
    /\ nIntegrate' = 0
    /\ ret' = None
    /\ UNCHANGED <<pc, kw, lastSet>>

\* Python numbers of a list handed to numpy
PyInt(n) == [int |-> TRUE, val |-> R(n)]
PyFloat(n, d) == [int |-> FALSE, val |-> Rat(n, d)]

\* the dtype of np.array(HO): an empty list gives float64
ListDtype(HO) ==
    IF HO # <<>> /\ \A i \in 1..Len(HO) : HO[i].int THEN "int64" ELSE "float64"

Promote(d1, d2) == IF d1 = "int64" /\ d2 = "int64" THEN "int64" ELSE "float64"

\* variant: the old higher orders are not removed
DeleteNothing(arr) == arr

\* np.delete(arr, np.r_[1:len(arr)])
DeleteFrom1(arr) == [arr EXCEPT !.vals = <<arr.vals[1]>>]

\* np.hstack((arr, HO))
HStack(arr, HO) ==
    [dtype |-> Promote(arr.dtype, ListDtype(HO)),
     vals |-> arr.vals \o [i \in 1..Len(HO) |-> HO[i].val]]

setHOspringConstants(s, HO) ==
    [s EXCEPT !.springConst = HStack(DeleteFrom1(s.springConst), HO)]

HOs == { <<>>, <<PyInt(1)>>, <<PyFloat(1, 2), PyInt(2)>> }

SetHOspringConstants ==
    /\ pc = "ready"
    /\ \E HO \in HOs :
         /\ args' = HO
         /\ self' = setHOspringConstants(self, HO)
    /\ pre' = self
    /\ op' = "setHOspringConstants"
    /\ raised' = FALSE
    /\ caught' = FALSE
    /\ nIntegrate' = 0
    /\ ret' = None
    /\ UNCHANGED <<pc, kw, lastSet>>

(***************************************************************************)
(* intHeatCapacity and intLinThermExp: lazy getters and manual setters     *)
(***************************************************************************)
\* hcs.split(':')[1] raises IndexError on text without a colon
IntegrandRaises(hcs) == hcs \in {"5"}

\* str(integrate(hcs.split(':')[1], T)) as sympy prints it
IntegralStr(hcs) ==
    CASE hcs = "lambda T: 0.000000" -> "0"
      [] hcs = "lambda T: 1.000000" -> "1.0*T"
      [] hcs = "lambda T: 2.000000" -> "2.0*T"
      [] hcs = "lambda T: T" -> "T**2/2"

\* lambdify(T, integral): the function of the integral
Lambdify(integral) == [kind |-> "lambda", src |-> "lambda T: " \o integral]

RECURSIVE IntegrateLoop(_, _, _, _)
\* the try block of the getter: appends until the first exception
IntegrateLoop(srcStrs, funcs, strs, n) ==
    IF srcStrs = <<>>
    THEN [funcs |-> funcs, strs |-> strs, caught |-> FALSE, n |-> n]
    ELSE IF IntegrandRaises(Head(srcStrs))
         THEN [funcs |-> funcs, strs |-> strs, caught |-> TRUE, n |-> n]
         ELSE IntegrateLoop(Tail(srcStrs),
                            Append(funcs, Lambdify(IntegralStr(Head(srcStrs)))),
                            Append(strs, "lambda T : " \o IntegralStr(Head(srcStrs))),
                            n + 1)

GetterOps == {"intHeatCapacity", "intLinThermExp"}

\* ids of the lists that are still referenced: by the cell, or by the caller
\* that holds the list the last read returned
HeldIds ==
    (IF "_intHeatCapacity" \in DOMAIN self THEN {self._intHeatCapacity.id} ELSE {})
    \cup (IF "_intLinThermExp" \in DOMAIN self THEN {self._intLinThermExp.id} ELSE {})
    \cup (IF op \in GetterOps THEN {ret.id} ELSE {})

\* the identity of a newly created list
FreshId == CHOOSE i \in 1..(Cardinality(HeldIds) + 1) :
               i \notin HeldIds /\ \A j \in 1..(i - 1) : j \in HeldIds

\* variant: the getter integrates on every read
intGetterNoCache(s, priv, strAttr, srcAttr, id) ==
    LET r == IntegrateLoop(s[srcAttr], <<>>, <<>>, 0)
        h == [id |-> id, items |-> r.funcs]
    IN  [self |-> SetAttr(SetAttr(s, priv, h), strAttr, r.strs),
         ret |-> h, caught |-> r.caught, n |-> r.n]

\* the getter: priv is the cache attribute, strAttr its string list,
\* srcAttr the string list that is integrated
intGetter(s, priv, strAttr, srcAttr, id) ==
    IF priv \in DOMAIN s
    THEN [self |-> s, ret |-> s[priv], caught |-> FALSE, n |-> 0]
    ELSE LET r == IntegrateLoop(s[srcAttr], <<>>, <<>>, 0)
             h == [id |-> id, items |-> r.funcs]
         IN  [self |-> SetAttr(SetAttr(s, priv, h), strAttr, r.strs),
              ret |-> h, caught |-> r.caught, n |-> r.n]

\* variant: a manual value does not replace an existing cache
intSetterKeepsCache(s, priv, strAttr, value, id) ==
    LET r == checkCellArrayInput(value)
    IN  IF r.raised \/ priv \in DOMAIN s THEN s
        ELSE SetAttr(SetAttr(s, priv, [id |-> id, items |-> r.output]),
                     strAttr, r.outputStrs)

\* the setter
intSetter(s, priv, strAttr, value, id) ==
    LET r == checkCellArrayInput(value)
    IN  IF r.raised THEN s
        ELSE SetAttr(SetAttr(s, priv, [id |-> id, items |-> r.output]),
                     strAttr, r.outputStrs)

\* the manual antiderivatives the model explores
IntSpecs ==
    { Bare(Str("lambda T: T**2/2")), List(<<Num(0), Str("lambda T: T**2/2")>>),
      List(<<Num(0), Str(BadText)>>), Bare(Func) }

GetIntHeatCapacity ==
    /\ pc = "ready"
    /\ LET r == intGetter(self, "_intHeatCapacity", "intHeatCapacityStr",
                          "heatCapacityStr", FreshId)
       IN  /\ self' = r.self
           /\ ret' = r.ret
           /\ caught' = r.caught
           /\ nIntegrate' = r.n
    /\ pre' = self
    /\ op' = "intHeatCapacity"
    /\ args' = None
    /\ raised' = FALSE
    /\ UNCHANGED <<pc, kw, lastSet>>

SetIntHeatCapacity ==
    /\ pc = "ready"
    /\ \E value \in IntSpecs :
         /\ args' = value
         /\ raised' = checkCellArrayInput(value).raised
         /\ lastSet' = IF checkCellArrayInput(value).raised THEN lastSet
                       ELSE [lastSet EXCEPT !.HeatCapacity = [set |-> TRUE, value |-> value]]
         /\ self' = intSetter(self, "_intHeatCapacity", "intHeatCapacityStr",
                              value, FreshId)
    /\ pre' = self
    /\ op' = "intHeatCapacity.setter"
    /\ caught' = FALSE
    /\ nIntegrate' = 0
    /\ ret' = None
    /\ UNCHANGED <<pc, kw>>

GetIntLinThermExp ==
    /\ pc = "ready"
    /\ LET r == intGetter(self, "_intLinThermExp", "intLinThermExpStr",
                          "linThermExpStr", FreshId)
       IN  /\ self' = r.self
           /\ ret' = r.ret
           /\ caught' = r.caught
           /\ nIntegrate' = r.n
    /\ pre' = self
    /\ op' = "intLinThermExp"
    /\ args' = None
    /\ raised' = FALSE
    /\ UNCHANGED <<pc, kw, lastSet>>

SetIntLinThermExp ==
    /\ pc = "ready"
    /\ \E value \in IntSpecs :
         /\ args' = value
         /\ raised' = checkCellArrayInput(value).raised
         /\ lastSet' = IF checkCellArrayInput(value).raised THEN lastSet
                       ELSE [lastSet EXCEPT !.LinThermExp = [set |-> TRUE, value |-> value]]
         /\ self' = intSetter(self, "_intLinThermExp", "intLinThermExpStr",
                              value, FreshId)
    /\ pre' = self
    /\ op' = "intLinThermExp.setter"
    /\ caught' = FALSE
    /\ nIntegrate' = 0
    /\ ret' = None
    /\ UNCHANGED <<pc, kw>>

(***************************************************************************)
(* getPropertyStruct                                                       *)
(***************************************************************************)
propertiesByTypes ==
    [heat |-> {"cAxis", "area", "volume", "optPenDepth", "thermCondStr",
               "heatCapacityStr", "intHeatCapacityStr", "subSystemCouplingStr",
               "numSubSystems"},
     phonon |-> {"numSubSystems", "intLinThermExpStr", "cAxis", "mass",
                 "springConst", "phononDamping"},
     XRD |-> {"numAtoms", "atoms", "area", "debWalFac", "cAxis"},
     optical |-> {"cAxis", "optPenDepth", "optRefIndex", "optRefIndexPerStrain"}]

\* propertiesByTypes[types] raises KeyError for any other tag than 'all'
getPropertyStructRaises(types) == types # "all" /\ types \notin DOMAIN propertiesByTypes

\* variant: the filter is skipped
getPropertyStructAll(s, types) == s

getPropertyStruct(s, types) ==
    IF types = "all" THEN s
    ELSE [key \in {k \in DOMAIN s : k \in propertiesByTypes[types]} |-> s[key]]

Types == {"all", "heat", "phonon", "XRD", "optical", "magnetic"}

GetPropertyStruct ==
    /\ pc = "ready"
    /\ \E types \in Types :
         /\ args' = types
         /\ raised' = getPropertyStructRaises(types)
         /\ ret' = IF getPropertyStructRaises(types) THEN None
                   ELSE getPropertyStruct(self, types)
    /\ pre' = self
    /\ op' = "getPropertyStruct"
    /\ caught' = FALSE
    /\ nIntegrate' = 0
    /\ UNCHANGED <<pc, kw, self, lastSet>>

(***************************************************************************)
(* checkCellArrayInput called on its own                                   *)
(***************************************************************************)
MaxLen == 3

\* the entries of the inputs the model explores
InputEntries == { Num(0), Num(1), Str("lambda T: T"), Str(BadText), Func }

Inputs ==
    { List(l) : l \in UNION { [1..n -> InputEntries] : n \in 0..MaxLen } }
    \cup { Bare(e) : e \in InputEntries \cup {Other} }

CheckCellArrayInput ==
    /\ pc = "ready"
    /\ \E inputs \in Inputs :
         /\ args' = inputs
         /\ raised' = checkCellArrayInput(inputs).raised
         /\ ret' = IF checkCellArrayInput(inputs).raised THEN None
                   ELSE [output |-> checkCellArrayInput(inputs).output,
                         outputStrs |-> checkCellArrayInput(inputs).outputStrs]
    /\ pre' = self
    /\ op' = "checkCellArrayInput"
    /\ caught' = \E i \in 1..Len(AsList(args')) :
                      /\ AsList(args')[i].kind = "str"
                      /\ EvalRaises(AsList(args')[i].str)
    /\ nIntegrate' = 0
    /\ UNCHANGED <<pc, kw, self, lastSet>>

(***************************************************************************)
(* Properties                                                              *)
(***************************************************************************)
\* C1: in every state after construction and any sequence of addAtom,
\* addMultipleAtoms, soundVel assignments and setHOspringConstants calls,
\* springConst[0] is exactly mass * (soundVel / cAxis)^2 of the current mass,
\* soundVel and cAxis, neither stale nor rounded or truncated.
C1_SpringConstExact ==
    pc = "ready" =>
        self.springConst.vals[1]
            = RMul(self.mass, RSq(RDiv(self._soundVel, self.cAxis)))

\* the number of entries a keyword argument was given with
\* the entries an argument was given with
GivenEntries(spec) == IF spec.isList THEN spec.items ELSE <<spec.value>>

GivenCount(spec) == Len(GivenEntries(spec))

\* the number of entries of a keyword argument whose text, if any, evaluates
ResolvedCount(spec) ==
    Cardinality({ i \in 1..GivenCount(spec) :
                    ~(GivenEntries(spec)[i].kind = "str"
                        /\ EvalRaises(GivenEntries(spec)[i].str)) })

\* C2 as stated: construction succeeds only if the four per-subsystem
\* arguments are given with the same number of entries, numSubSystems is then
\* that number, and it fails whenever the numbers of entries differ, also
\* for entries whose text cannot be evaluated.
C2_GivenCounts ==
    pc # "new" =>
        LET n == GivenCount(kw.heatCapacity)
            same == /\ n = GivenCount(kw.thermCond)
                    /\ n = GivenCount(kw.linThermExp)
                    /\ n = GivenCount(kw.subSystemCoupling)
        IN  /\ pc = "ready" => same /\ self.numSubSystems = n
            /\ ~same => pc = "failed"

\* C2 amended: construction succeeds only if the four per-subsystem arguments
\* have the same number of entries once the entries whose text fails to
\* evaluate are dropped, numSubSystems is then that number, and construction
\* fails whenever these numbers of resolved entries differ.
C2_ResolvedCounts ==
    pc # "new" =>
        LET n == ResolvedCount(kw.heatCapacity)
            same == /\ n = ResolvedCount(kw.thermCond)
                    /\ n = ResolvedCount(kw.linThermExp)
                    /\ n = ResolvedCount(kw.subSystemCoupling)
        IN  /\ pc = "ready" => same /\ self.numSubSystems = n
            /\ ~same => pc = "failed"

\* a cell was constructed from two heat-capacity entries, one of them dropped
C2_Witness ==
    /\ pc = "ready"
    /\ GivenCount(kw.heatCapacity) = 2
    /\ ResolvedCount(kw.heatCapacity) = 1
    /\ self.numSubSystems = 1

\* C3: after every successful addAtom, density is the raw sum of the masses
\* of all atoms of the cell divided by the volume, and mass is that raw sum
\* times 1 Angstrom^2 divided by the area; earlier normalisations are never
\* compounded.
C3_MassDensity ==
    (pc = "ready" /\ op \in {"addAtom", "addMultipleAtoms"} /\ ~raised) =>
        LET sum == SumAtomMass(self.atoms, 1, R(0))
        IN  /\ self.density = RDiv(sum, self.volume)
            /\ self.mass = RDiv(RMul(sum, RSq(angstrom)), self.area)

\* a second atom was added to a cell whose area is not 1 Angstrom^2
C3_Witness ==
    /\ pc = "ready"
    /\ op = "addAtom"
    /\ ~raised
    /\ self.numAtoms = 2
    /\ pre.numAtoms = 1
    /\ self.area # R(1)
    /\ self.mass # pre.mass

\* C4: assigning soundVel changes only the stored sound velocity and
\* springConst[0]: mass, density, atoms, numAtoms, the higher-order spring
\* constants and every other attribute are as before.
C4_SoundVelFrame ==
    (pc = "ready" /\ op = "soundVel") =>
        /\ DOMAIN self = DOMAIN pre
        /\ \A k \in DOMAIN pre \ {"_soundVel", "springConst"} : self[k] = pre[k]
        /\ self._soundVel = args
        /\ self.springConst.dtype = pre.springConst.dtype
        /\ Len(self.springConst.vals) = Len(pre.springConst.vals)
        /\ \A i \in 2..Len(pre.springConst.vals) :
               self.springConst.vals[i] = pre.springConst.vals[i]

\* the sound velocity of a cell with atoms and higher orders was changed
C4_Witness ==
    /\ pc = "ready"
    /\ op = "soundVel"
    /\ self.numAtoms > 0
    /\ Len(self.springConst.vals) > 1
    /\ self._soundVel # pre._soundVel
    /\ self.springConst.vals[1] # pre.springConst.vals[1]

\* C5: setHOspringConstants(HO) keeps springConst[0] and makes springConst
\* springConst[0] followed by the entries of HO in order; earlier higher
\* orders are replaced, so that HO1 then HO2 gives what HO2 alone gives.
C5_SetHOReplaces ==
    (pc = "ready" /\ op = "setHOspringConstants") =>
        /\ self.springConst.vals
             = <<pre.springConst.vals[1]>> \o [i \in 1..Len(args) |-> args[i].val]
        /\ \A HO1 \in HOs :
             setHOspringConstants(setHOspringConstants(pre, HO1), args).springConst.vals
                = self.springConst.vals

\* higher orders were set on a cell that already had two, with a non-zero
\* harmonic term
C5_Witness ==
    /\ pc = "ready"
    /\ op = "setHOspringConstants"
    /\ Len(pre.springConst.vals) = 3
    /\ Len(args) = 1
    /\ pre.springConst.vals[1] # R(0)

IntProps == {"HeatCapacity", "LinThermExp"}
Priv(p) == "_int" \o p
StrAttr(p) == "int" \o p \o "Str"
Getter(p) == "int" \o p
Setter(p) == "int" \o p \o ".setter"

\* C6: a read of intHeatCapacity leaves the list it returns in the cell, no
\* operation but the manual set replaces that list, and a read that finds
\* it returns the identical list, integrates nothing and leaves
\* intHeatCapacityStr and every other attribute alone; so two, or any number
\* of, reads without a manual set in between return the identical list.
C6_CachedRead ==
    pc = "ready" =>
        /\ op = "intHeatCapacity" =>
             "_intHeatCapacity" \in DOMAIN self /\ ret = self._intHeatCapacity
        /\ (op = "intHeatCapacity" /\ "_intHeatCapacity" \in DOMAIN pre) =>
             /\ ret = pre._intHeatCapacity
             /\ nIntegrate = 0
             /\ self = pre
        /\ (op \notin {"__init__", "intHeatCapacity", "intHeatCapacity.setter"}
              /\ "_intHeatCapacity" \in DOMAIN pre) =>
             /\ "_intHeatCapacity" \in DOMAIN self
             /\ self._intHeatCapacity = pre._intHeatCapacity
             /\ self.intHeatCapacityStr = pre.intHeatCapacityStr

\* a read found the list an earlier read had derived
C6_Witness ==
    /\ pc = "ready"
    /\ op = "intHeatCapacity"
    /\ "_intHeatCapacity" \in DOMAIN pre
    /\ ~lastSet.HeatCapacity.set
    /\ ret.items # <<>>
    /\ ret.id = pre._intHeatCapacity.id

\* C7: when the integration fails for some subsystem while a getter derives
\* its list, the list and its string list hold no partial result.
C7_NoPartialResults ==
    (pc = "ready" /\ op \in GetterOps /\ caught) =>
        \A p \in IntProps :
            op = Getter(p) => ret.items = <<>> /\ self[StrAttr(p)] = <<>>

\* a spec all of whose entries resolve
ValidSpec(spec) ==
    \A i \in 1..GivenCount(spec) :
        \/ GivenEntries(spec)[i].kind = "num"
        \/ GivenEntries(spec)[i].kind = "str" /\ ~EvalRaises(GivenEntries(spec)[i].str)

\* the strings of a valid spec
SpecStrs(spec) ==
    [i \in 1..GivenCount(spec) |->
        IF GivenEntries(spec)[i].kind = "str" THEN GivenEntries(spec)[i].str
        ELSE "lambda T: " \o FormatF(GivenEntries(spec)[i].num)]

\* C8: once the setter of intHeatCapacity or intLinThermExp was called with
\* a valid spec, the cell holds the functions and the strings of the spec
\* last set, whatever the getter had derived before, and every read returns
\* these functions without integrating.
C8_ManualSet ==
    pc = "ready" =>
        \A p \in IntProps :
            (lastSet[p].set /\ ValidSpec(lastSet[p].value)) =>
                LET strs == SpecStrs(lastSet[p].value)
                    funcs == [i \in 1..Len(strs) |-> [kind |-> "lambda", src |-> strs[i]]]
                IN  /\ self[Priv(p)].items = funcs
                    /\ self[StrAttr(p)] = strs
                    /\ op = Getter(p) => ret.items = funcs /\ nIntegrate = 0
                    /\ op = Setter(p) /\ ~raised => lastSet[p].value = args

\* a read after a manual set of two entries on a cell with one subsystem
C8_Witness ==
    /\ pc = "ready"
    /\ op = "intHeatCapacity"
    /\ lastSet.HeatCapacity.set
    /\ lastSet.HeatCapacity.value = List(<<Num(0), Str("lambda T: T**2/2")>>)
    /\ Len(self.heatCapacityStr) = 1
    /\ Len(ret.items) = 2

\* C9: getPropertyStruct(types='optical') returns exactly the keys cAxis,
\* optPenDepth, optRefIndex and optRefIndexPerStrain, each with the current
\* value of the attribute.
C9_OpticalKeys ==
    (pc = "ready" /\ op = "getPropertyStruct" /\ ~raised) =>
        (args = "optical" =>
            /\ DOMAIN ret = {"cAxis", "optPenDepth", "optRefIndex", "optRefIndexPerStrain"}
            /\ \A k \in DOMAIN ret : ret[k] = self[k])

\* the optical projection of a cell whose integrated lists exist
C9_Witness ==
    /\ pc = "ready"
    /\ op = "getPropertyStruct"
    /\ args = "optical"
    /\ "_intHeatCapacity" \in DOMAIN self
    /\ "intLinThermExpStr" \in DOMAIN self

\* C10: for each of heat, phonon, XRD and optical the key set of the result
\* is the predeclared field list of the domain, whatever was done before.
C10_FixedKeys ==
    (pc = "ready" /\ op = "getPropertyStruct" /\ ~raised) =>
        (args \in {"heat", "phonon", "XRD", "optical"} =>
            DOMAIN ret = propertiesByTypes[args])

\* an entry that is kept: a number, or text whose evaluation does not raise
Resolves(e) == ~(e.kind = "str" /\ EvalRaises(e.str))

\* the string kept for an entry
SourceOf(e) == IF e.kind = "str" THEN e.str ELSE "lambda T: " \o FormatF(e.num)

\* C11: on numeric and textual entries checkCellArrayInput returns a function
\* list and a string list of equal length, the i-th string being the source
\* of the i-th function; the kept entries are in the order of the input, text
\* whose evaluation raises is omitted from both lists without ending the
\* traversal, the result is as long as the input exactly when nothing was
\* omitted, and a bare scalar or string counts as a list of one entry.
C11_Resolve ==
    (pc = "ready" /\ op = "checkCellArrayInput" /\ ~raised) =>
        LET given == GivenEntries(args)
            kept == SelectSeq(given, Resolves)
        IN  /\ Len(ret.output) = Len(ret.outputStrs)
            /\ \A i \in 1..Len(ret.output) : ret.output[i].src = ret.outputStrs[i]
            /\ ret.outputStrs = [i \in 1..Len(kept) |-> SourceOf(kept[i])]
            /\ (Len(ret.output) = Len(given)) <=> (\A i \in 1..Len(given) : Resolves(given[i]))
            /\ ~args.isList => Len(ret.output) <= 1 /\ Len(given) = 1

\* the first of three entries was omitted and the two after it were kept
C11_Witness ==
    /\ pc = "ready"
    /\ op = "checkCellArrayInput"
    /\ ~raised
    /\ args.isList
    /\ Len(args.items) = 3
    /\ ~Resolves(args.items[1])
    /\ Len(ret.output) = 2
    /\ ret.outputStrs = <<"lambda T: 1.000000", "lambda T: T">>

\* a position addAtom cannot resolve to a function
Unresolvable(position) ==
    \/ position.kind \in {"function", "other"}
    \/ position.kind = "str" /\ EvalRaises(position.str)

\* C12: numAtoms is the number of entries of atoms, the second element of
\* every entry is a callable resolved from the third, and an addAtom whose
\* position cannot be resolved to a function adds no entry and leaves atoms,
\* numAtoms, mass, density and springConst unchanged.
C12_AtomsResolved ==
    pc = "ready" =>
        /\ self.numAtoms = Len(self.atoms)
        /\ \A i \in 1..Len(self.atoms) :
             /\ self.atoms[i].position.kind = "lambda"
             /\ self.atoms[i].position.src = self.atoms[i].positionStr
        /\ (op = "addAtom" /\ Unresolvable(args.position)) =>
             /\ self.atoms = pre.atoms
             /\ self.numAtoms = pre.numAtoms
             /\ self.mass = pre.mass
             /\ self.density = pre.density
             /\ self.springConst = pre.springConst

(***************************************************************************)
(* Specifications                                                          *)
(***************************************************************************)
\* every operation; its state space is the product of the two below and is
\* large, the properties are checked under SpecCell and SpecInt
Next ==
    \/ Construct
    \/ AddAtom
    \/ AddMultipleAtoms
    \/ SetSoundVel
    \/ SetHOspringConstants
    \/ GetIntHeatCapacity
    \/ SetIntHeatCapacity
    \/ GetIntLinThermExp
    \/ SetIntLinThermExp
    \/ GetPropertyStruct
    \/ CheckCellArrayInput

Spec == Init /\ [][Next]_vars

\* construction, atoms, sound velocity and spring constants
NextCell ==
    \/ Construct
    \/ AddAtom
    \/ AddMultipleAtoms
    \/ SetSoundVel
    \/ SetHOspringConstants

SpecCell == Init /\ [][NextCell]_vars

\* construction, the integrated properties and the projections
NextInt ==
    \/ Construct
    \/ GetIntHeatCapacity
    \/ SetIntHeatCapacity
    \/ GetIntLinThermExp
    \/ SetIntLinThermExp
    \/ GetPropertyStruct

SpecInt == Init /\ [][NextInt]_vars

\* construction and checkCellArrayInput on its own
NextResolve ==
    \/ Construct
    \/ CheckCellArrayInput

SpecResolve == Init /\ [][NextResolve]_vars

====
